---- MODULE Spec2Model ----
(***************************************************************************)
(* Field arithmetic over GF(p751) and GF(p751^2) (fpx.c): multiprecision   *)
(* helpers, Montgomery multiplication, the fixed addition-chain inversion, *)
(* the GF(p^2) algebra and the masked select/swap primitives.              *)
(*                                                                         *)
(* Scale.  The source works on NWORDS_FIELD = 12 digits of RADIX = 64 bits *)
(* modulo the 751-bit prime p751.  Values of that size cannot be           *)
(* enumerated, so the value-level model keeps the code's limb structure    *)
(* but runs it on NWORDS_FIELD digits of RADIX bits (both small, both      *)
(* named below) and on a small prime standing for p751 (PrimeModel).  The  *)
(* exponent bookkeeping of the inversion chain is done at full size, on    *)
(* the real constant (p751_const).                                         *)
(***************************************************************************)
EXTENDS Integers, Sequences, FiniteSets, TLC

\* ---------------------------------------------------------------- sizes

\* Bits per digit (the source's RADIX is 64).
RADIX == 2

\* Digits per field element (the source's NWORDS_FIELD is 12).
NWORDS_FIELD == 3

Base == 2^RADIX

Digit == 0 .. Base - 1

\* The value R = 2^(NWORDS_FIELD*RADIX) of the Montgomery constant.
MontR == Base^NWORDS_FIELD

\* C indexes digits from 0; sequences here are indexed from 1: x[i] in C is
\* x[i+1] in the model.
Felm == [1 .. NWORDS_FIELD -> Digit]

RECURSIVE ValFrom(_, _)
ValFrom(x, i) == IF i > Len(x) THEN 0 ELSE x[i] + Base * ValFrom(x, i + 1)

\* The unsigned integer a little-endian digit sequence stands for.
Val(x) == ValFrom(x, 1)

\* The sequence s as an explicit tuple of its elements.
AsSeq(s) == SubSeq(s, 1, Len(s))

\* The little-endian digits of v, nwords of them (v mod Base^nwords).
RECURSIVE ToWords(_, _)
ToWords(v, nwords) ==
    IF nwords = 0 THEN << >> ELSE << v % Base >> \o ToWords(v \div Base, nwords - 1)

\* ----------------------------------------------------- C bitwise operators

RECURSIVE BitAnd(_, _)
\* x & y
BitAnd(x, y) ==
    IF x = 0 \/ y = 0 THEN 0
    ELSE (x % 2) * (y % 2) + 2 * BitAnd(x \div 2, y \div 2)

RECURSIVE BitXor(_, _)
\* x ^ y
BitXor(x, y) ==
    IF x = 0 /\ y = 0 THEN 0
    ELSE ((x + y) % 2) + 2 * BitXor(x \div 2, y \div 2)

RECURSIVE BitOr(_, _)
\* x | y
BitOr(x, y) ==
    IF x = 0 /\ y = 0 THEN 0
    ELSE (IF x % 2 = 1 \/ y % 2 = 1 THEN 1 ELSE 0) + 2 * BitOr(x \div 2, y \div 2)

\* The all-one digit 0xFF..FF.
AllOnes == Base - 1

\* `unsigned int` is half as wide as a digit (32 bits against 64): the value
\* a digit-wide expression has once it is stored in an unsigned int.
ToUInt(v) == v % 2^(RADIX \div 2)

\* ------------------------------------------------------ global constants

\* One 64-bit word of the source, given as its four 16-bit quarters in the
\* order the hexadecimal literal shows them, as little-endian 16-bit chunks.
Limb64(h3, h2, h1, h0) == <<h0, h1, h2, h3>>

\* p751 as the source spells it, twelve 64-bit words from the least
\* significant, in little-endian 16-bit chunks (48 of them).
p751_const ==
    Limb64(\hFFFF, \hFFFF, \hFFFF, \hFFFF) \o
    Limb64(\hFFFF, \hFFFF, \hFFFF, \hFFFF) \o
    Limb64(\hFFFF, \hFFFF, \hFFFF, \hFFFF) \o
    Limb64(\hFFFF, \hFFFF, \hFFFF, \hFFFF) \o
    Limb64(\hFFFF, \hFFFF, \hFFFF, \hFFFF) \o
    Limb64(\hEEAF, \hFFFF, \hFFFF, \hFFFF) \o
    Limb64(\hE3EC, \h9685, \h49F8, \h78A8) \o
    Limb64(\hDA95, \h9B1A, \h13F7, \hCC76) \o
    Limb64(\h084E, \h9867, \hD6EB, \hE876) \o
    Limb64(\h8562, \hB504, \h5CB2, \h5748) \o
    Limb64(\h0E12, \h909F, \h97BA, \hDC66) \o
    Limb64(\h0000, \h6FE5, \hD541, \hF71C)

\* Radix of the chunks of p751_const and of the exponents below.
ChunkBase == 2^16

RECURSIVE ChunksMod(_, _)
\* The chunk sequence e, as an integer, modulo m (m small).
ChunksMod(e, m) ==
    IF e = <<>> THEN 0
    ELSE (Head(e) + ChunkBase * ChunksMod(Tail(e), m)) % m

IsPrime(q) == q > 1 /\ \A d \in 2 .. q - 1 : d * d > q \/ q % d # 0

\* The primes that can stand for p751 in the scaled field: q = 3 mod 4 (so
\* that i^2 = -1 defines GF(q^2)), q below R/4 (p751 is below 2^768 / 4, the
\* headroom the unreduced sums a0 + a1 rely on), and q - 1 dividing
\* p751 - 1, so that an exponent is the inverse's exponent modulo q exactly
\* when it is congruent to p751 - 2 modulo q - 1.
PrimeCandidates ==
    { q \in 5 .. (MontR \div 4) :
        /\ q % 4 = 3
        /\ ChunksMod(p751_const, q - 1) = 1
        /\ IsPrime(q) }

\* The prime of the scaled field.
PrimeModel == CHOOSE q \in PrimeCandidates : \A r \in PrimeCandidates : r <= q

\* The digits of the prime, the array the code calls p751.
p751 == ToWords(PrimeModel, NWORDS_FIELD)

\* Field elements proper: digit sequences with a value below the prime.
Fp == { ToWords(v, NWORDS_FIELD) : v \in 0 .. PrimeModel - 1 }

\* --------------------------------------------- digit macros and mp layer

\* ADDC(carryIn, addend1, addend2, carryOut, sumOut): digit addition with carry.
ADDC(carryIn, addend1, addend2) ==
    [ carry |-> (addend1 + addend2 + carryIn) \div Base,
      sum   |-> (addend1 + addend2 + carryIn) % Base ]

\* SUBC(borrowIn, minuend, subtrahend, borrowOut, differenceOut): digit
\* subtraction with borrow.
SUBC(borrowIn, minuend, subtrahend) ==
    [ borrow |-> IF minuend < subtrahend + borrowIn THEN 1 ELSE 0,
      diff   |-> (minuend + Base - subtrahend - borrowIn) % Base ]

\* CT_LT(x, y): 1 when digit x is below digit y, else 0.
CT_LT(xd, yd) == IF xd < yd THEN 1 ELSE 0

RECURSIVE mp_sub_from(_, _, _, _, _)
mp_sub_from(a, b, i, nwords, borrow) ==
    IF i > nwords THEN [c |-> <<>>, borrow |-> borrow]
    ELSE LET d == SUBC(borrow, a[i], b[i])
             r == mp_sub_from(a, b, i + 1, nwords, d.borrow)
         IN  [c |-> <<d.diff>> \o r.c, borrow |-> r.borrow]

\* c = a - b over nwords digits, and the borrow bit.
mp_sub(a, b, nwords) == mp_sub_from(a, b, 1, nwords, 0)

RECURSIVE mp_add_from(_, _, _, _, _)
mp_add_from(a, b, i, nwords, carry) ==
    IF i > nwords THEN [c |-> <<>>, carry |-> carry]
    ELSE LET s == ADDC(carry, a[i], b[i])
             r == mp_add_from(a, b, i + 1, nwords, s.carry)
         IN  [c |-> <<s.sum>> \o r.c, carry |-> r.carry]

\* c = a + b over nwords digits, and the carry bit.
mp_add(a, b, nwords) == mp_add_from(a, b, 1, nwords, 0)

\* ----------------------------------------------------- external kernels

\* mp_mul(a, b, c, nwords): the full 2*nwords-digit product.
mp_mul(a, b, nwords) == ToWords(Val(a) * Val(b), 2 * nwords)

\* -p^-1 modulo R, the constant of the Montgomery reduction.
MontPInvNeg == CHOOSE k \in 0 .. MontR - 1 : (k * PrimeModel + 1) % MontR = 0

\* rdc_mont(ma, mc): Montgomery reduction, mc = ma * R^-1 mod p: the multiple
\* of p that clears the low half is added, the low half dropped, and p
\* subtracted once if the rest is not below it.  The result is below p
\* whenever ma is below p * R.
rdc_mont(ma) ==
    LET T == Val(ma)
        m == ((T % MontR) * MontPInvNeg) % MontR
        t == (T + m * PrimeModel) \div MontR
    IN  ToWords(IF t >= PrimeModel THEN t - PrimeModel ELSE t, NWORDS_FIELD)

\* fpadd751(a, b, c): c = a + b mod p.
fpadd751(a, b) == ToWords((Val(a) + Val(b)) % PrimeModel, NWORDS_FIELD)

\* fpsub751(a, b, c): c = a - b mod p.
fpsub751(a, b) ==
    ToWords((Val(a) + PrimeModel - (Val(b) % PrimeModel)) % PrimeModel, NWORDS_FIELD)

\* fpneg751(a): a = -a mod p.
fpneg751(a) ==
    ToWords((PrimeModel - (Val(a) % PrimeModel)) % PrimeModel, NWORDS_FIELD)

\* ------------------------------------------------- base-field functions

\* fpcopy751(a, c): c = a, digit by digit.
fpcopy751(a) == AsSeq([i \in 1 .. NWORDS_FIELD |-> a[i]])

RECURSIVE is_felm_zero_from(_, _, _)
is_felm_zero_from(fx, i, r) ==
    IF i > NWORDS_FIELD THEN r
    ELSE is_felm_zero_from(fx, i + 1, ToUInt(BitOr(r, BitXor(fx[i], 0))))

\* The value is_felm_zero returns: r, the OR of the digits as stored in an
\* unsigned int.
is_felm_zero(fx) == is_felm_zero_from(fx, 1, 0)

RECURSIVE is_felm_lt_from(_, _, _, _)
is_felm_lt_from(fx, fy, i, r) ==
    IF i < 1 THEN r
    ELSE is_felm_lt_from(fx, fy, i - 1, r + BitAnd(CT_LT(fx[i], fy[i]), 1))

\* The value is_felm_lt returns: r, one added per digit position, from the
\* most significant down, at which x's digit is below y's.
is_felm_lt(fx, fy) == is_felm_lt_from(fx, fy, NWORDS_FIELD, 0)

\* fpmul751_mont(ma, mb, mc): product into a zeroed double-width temp, then
\* Montgomery reduction.
fpmul751_mont(ma, mb) == rdc_mont(mp_mul(ma, mb, NWORDS_FIELD))

\* fpsqr751_mont(ma, mc).
fpsqr751_mont(ma) == rdc_mont(mp_mul(ma, ma, NWORDS_FIELD))

\* Montgomery_R2: R^2 mod p.
Montgomery_R2 == ToWords((MontR * MontR) % PrimeModel, NWORDS_FIELD)

\* to_mont(a, mc): mc = a * R mod p.
to_mont(a) == fpmul751_mont(a, Montgomery_R2)

\* from_mont(ma, c): c = ma * R^-1 mod p, a Montgomery product with 1.
from_mont(ma) ==
    LET one == [ToWords(0, NWORDS_FIELD) EXCEPT ![1] = 1]
    IN  fpmul751_mont(ma, one)

\* ----------------------------------------------- fpinv751_mont: the chain

\* felm_t t[27]
TableSize == 27

\* The registers of fpinv751_mont, numbered: t[0] .. t[26] are 0 .. 26, then
\* tt, then the argument a.  Register n is element n + 1 of the register
\* sequence.
TT == TableSize

A == TableSize + 1

Sqr(src, dst) == [op |-> "fpsqr751_mont", x |-> src, y |-> src, z |-> dst]

Mul(src1, src2, dst) == [op |-> "fpmul751_mont", x |-> src1, y |-> src2, z |-> dst]

Copy(src, dst) == [op |-> "fpcopy751", x |-> src, y |-> src, z |-> dst]

\* The precomputed table, call by call.
TableBuild ==
    << Sqr(A, TT),
       Mul(A, TT, 0),
       Mul(0, TT, 1),
       Mul(1, TT, 2),
       Mul(2, TT, 3),
       Mul(3, TT, 3) >> \o
    [k \in 1 .. 6 |-> Mul(k + 2, TT, k + 3)] \o        \* for (i = 3; i <= 8; i++)
    << Mul(9, TT, 9) >> \o
    [k \in 1 .. 12 |-> Mul(k + 8, TT, k + 9)] \o       \* for (i = 9; i <= 20; i++)
    << Mul(21, TT, 21) >> \o
    [k \in 1 .. 4 |-> Mul(k + 20, TT, k + 21)] \o      \* for (i = 21; i <= 24; i++)
    << Mul(25, TT, 25),
       Mul(25, TT, 26) >>

\* Chain with one burst a squaring short (the 8 squarings before t[2]).
Chain_ShortBurst ==
    << <<6, 20>>, <<6, 24>>, <<6, 11>>, <<6, 8>>, <<7, 2>>, <<6, 23>>, <<6, 2>>, <<9, 2>>,
       <<10, 15>>, <<8, 13>>, <<8, 26>>, <<8, 20>>, <<6, 11>>, <<6, 10>>, <<6, 14>>, <<6, 4>>,
       <<10, 18>>, <<6, 1>>, <<7, 22>>, <<10, 6>>, <<7, 24>>, <<6, 9>>, <<8, 18>>, <<6, 17>>,
       <<8, TableSize + 1>>, <<10, 16>>, <<6, 7>>, <<6, 0>>, <<7, 12>>, <<7, 19>>, <<6, 22>>, <<6, 25>>,
       <<7, 2>>, <<6, 10>>, <<7, 22>>, <<8, 18>>, <<6, 4>>, <<6, 14>>, <<7, 13>>, <<6, 5>>,
       <<6, 23>>, <<6, 21>>, <<6, 2>>, <<7, 23>>, <<8, 12>>, <<6, 9>>, <<6, 3>>, <<7, 13>>,
       <<7, 17>>, <<8, 26>>, <<8, 5>>, <<8, 8>>, <<8, 11>>, <<6, 22>> >>

\* The unrolled bursts after fpcopy751(a, tt): each pair <<n, r>> is
\* n squarings of tt followed by fpmul751_mont(r, tt, tt).
Chain ==
    << <<6, 20>>, <<6, 24>>, <<6, 11>>, <<6, 8>>, <<8, 2>>, <<6, 23>>, <<6, 2>>, <<9, 2>>,
       <<10, 15>>, <<8, 13>>, <<8, 26>>, <<8, 20>>, <<6, 11>>, <<6, 10>>, <<6, 14>>, <<6, 4>>,
       <<10, 18>>, <<6, 1>>, <<7, 22>>, <<10, 6>>, <<7, 24>>, <<6, 9>>, <<8, 18>>, <<6, 17>>,
       <<8, A>>, <<10, 16>>, <<6, 7>>, <<6, 0>>, <<7, 12>>, <<7, 19>>, <<6, 22>>, <<6, 25>>,
       <<7, 2>>, <<6, 10>>, <<7, 22>>, <<8, 18>>, <<6, 4>>, <<6, 14>>, <<7, 13>>, <<6, 5>>,
       <<6, 23>>, <<6, 21>>, <<6, 2>>, <<7, 23>>, <<8, 12>>, <<6, 9>>, <<6, 3>>, <<7, 13>>,
       <<7, 17>>, <<8, 26>>, <<8, 5>>, <<8, 8>>, <<8, 11>>, <<6, 22>> >>

\* n squarings of tt in place.
Squarings(n) == [k \in 1 .. n |-> Sqr(TT, TT)]

RECURSIVE ChainCode(_)
ChainCode(c) ==
    IF c = <<>> THEN <<>>
    ELSE Squarings(Head(c)[1]) \o << Mul(Head(c)[2], TT, TT) >> \o ChainCode(Tail(c))

RECURSIVE TailCode(_)
\* for (j = 0; j < 61; j++) { fpmul751_mont(t[26], tt, tt); 6 squarings }
TailCode(j) ==
    IF j = 0 THEN <<>>
    ELSE << Mul(26, TT, TT) >> \o Squarings(6) \o TailCode(j - 1)

\* Every call fpinv751_mont makes, in order.
Program ==
    TableBuild \o << Copy(A, TT) >> \o ChainCode(Chain) \o Squarings(7) \o
    TailCode(61) \o << Mul(25, TT, A) >>

\* The position after the last call.
Done == Len(Program) + 1

\* What one call does to the registers.
Exec(instr, r) ==
    CASE instr.op = "fpsqr751_mont" ->
            [r EXCEPT ![instr.z + 1] = fpsqr751_mont(r[instr.x + 1])]
      [] instr.op = "fpmul751_mont" ->
            [r EXCEPT ![instr.z + 1] = fpmul751_mont(r[instr.x + 1], r[instr.y + 1])]
      [] instr.op = "fpcopy751" ->
            [r EXCEPT ![instr.z + 1] = fpcopy751(r[instr.x + 1])]

\* A step with a shortcut on the data: a multiplication or squaring whose
\* operand tt is zero is skipped.
fpinv751_step_SkipOnZero(k, r) ==
    IF Program[k].op # "fpcopy751" /\ Val(r[TT + 1]) = 0 /\ k > 1
    THEN [ calls |-> << >>, reg |-> r, pc |-> k + 1 ]
    ELSE [ calls |-> << Program[k] >>, reg |-> Exec(Program[k], r), pc |-> k + 1 ]

\* One step of fpinv751_mont at position k with registers r: the call made,
\* the registers after it and the next position.  The function is straight
\* line code and loops with constant bounds: the call depends on k alone.
fpinv751_step(k, r) ==
    [ calls |-> << Program[k] >>, reg |-> Exec(Program[k], r), pc |-> k + 1 ]

\* The registers on entry: a holds the argument; tt and the table are not
\* yet written (each is written before it is first read).
EntryRegs(a) ==
    AsSeq([n \in 1 .. A + 1 |-> IF n = A + 1 THEN a ELSE ToWords(0, NWORDS_FIELD)])

RECURSIVE RunSteps(_, _, _)
\* The position and registers after up to n steps from position k with
\* registers r, stopping where the function returns (the run is split in
\* halves to keep the evaluation shallow).
RunSteps(k, r, n) ==
    IF n = 0 \/ k = Done THEN [pc |-> k, reg |-> r]
    ELSE IF n = 1 THEN [pc |-> fpinv751_step(k, r).pc, reg |-> fpinv751_step(k, r).reg]
    ELSE LET s == RunSteps(k, r, n \div 2)
         IN  RunSteps(s.pc, s.reg, n - n \div 2)

\* fpinv751_mont(a): the value left in a when the function returns.
fpinv751_mont(a) == RunSteps(1, EntryRegs(a), Len(Program)).reg[A + 1]

\* ------------------------------------------------- exponent bookkeeping

\* Exponents are kept exactly, as little-endian chunks, one chunk more than
\* p751 has.
ExpLen == Len(p751_const) + 1

ExpOfInt(v) == AsSeq([i \in 1 .. ExpLen |-> IF i = 1 THEN v ELSE 0])

RECURSIVE ExpAddFrom(_, _, _, _)
ExpAddFrom(e, f, i, carry) ==
    IF i > ExpLen THEN <<>>
    ELSE << (e[i] + f[i] + carry) % ChunkBase >> \o
         ExpAddFrom(e, f, i + 1, (e[i] + f[i] + carry) \div ChunkBase)

\* e + f.
ExpAdd(e, f) == ExpAddFrom(e, f, 1, 0)

\* What one call does to the exponents of the registers: a squaring doubles
\* the exponent, a multiplication adds its operands' exponents.
ExecExp(instr, e) ==
    CASE instr.op = "fpsqr751_mont" ->
            [e EXCEPT ![instr.z + 1] = ExpAdd(e[instr.x + 1], e[instr.x + 1])]
      [] instr.op = "fpmul751_mont" ->
            [e EXCEPT ![instr.z + 1] = ExpAdd(e[instr.x + 1], e[instr.y + 1])]
      [] instr.op = "fpcopy751" ->
            [e EXCEPT ![instr.z + 1] = e[instr.x + 1]]

\* On entry a holds the argument to the power 1.
EntryExps == AsSeq([n \in 1 .. A + 1 |-> ExpOfInt(IF n = A + 1 THEN 1 ELSE 0)])

\* p751 - 2 (the lowest chunk of p751 is above 2).
P751Minus2 == [p751_const EXCEPT ![1] = @ - 2] \o << 0 >>

\* ------------------------------------------------------ GF(p^2) functions

\* An f2elm is a pair of field elements: a[0] and a[1] in C are a[1] and a[2]
\* here.  The functions below work on storage: `m` maps each slot (an f2elm_t
\* object) to its contents and pa, pb, pc are the slots the pointer arguments
\* name, so that two arguments may be the same object.  Every read names the
\* memory it reads: m before the function's first write, m1 after it.
Slots == {"a", "b", "c"}

ZeroFelm == ToWords(0, NWORDS_FIELD)

F2 == { << u, v >> : u \in Fp, v \in Fp }

\* fp2copy751(a, c).
fp2copy751(m, pa, pc) ==
    LET m1 == [m EXCEPT ![pc][1] = fpcopy751(m[pa][1])]
    IN  [m1 EXCEPT ![pc][2] = fpcopy751(m1[pa][2])]

\* fp2sqr751_mont with a0 - a1 taken by mp_sub, without the reduction
\* modulo p that fpsub751 does.
fp2sqr751_mont_RawSub(m, pa, pc) ==
    LET t1 == mp_add(m[pa][1], m[pa][2], NWORDS_FIELD).c
        t2 == mp_sub(m[pa][1], m[pa][2], NWORDS_FIELD).c
        t3 == mp_add(m[pa][1], m[pa][1], NWORDS_FIELD).c
        m1 == [m EXCEPT ![pc][1] = fpmul751_mont(t1, t2)]
    IN  [m1 EXCEPT ![pc][2] = fpmul751_mont(t3, m1[pa][2])]

\* fp2sqr751_mont(a, c): c0 = (a0+a1)(a0-a1), c1 = 2a0*a1.
fp2sqr751_mont(m, pa, pc) ==
    LET t1 == mp_add(m[pa][1], m[pa][2], NWORDS_FIELD).c
        t2 == fpsub751(m[pa][1], m[pa][2])
        t3 == mp_add(m[pa][1], m[pa][1], NWORDS_FIELD).c
        m1 == [m EXCEPT ![pc][1] = fpmul751_mont(t1, t2)]
    IN  [m1 EXCEPT ![pc][2] = fpmul751_mont(t3, m1[pa][2])]

\* The loop adding p751 whatever the mask.
AddMaskedPrime_NoMask(hi, mask) == mp_add(hi, p751, NWORDS_FIELD).c

\* The high half tt3[NWORDS_FIELD ..] after the loop that adds p751 & mask
\* into it with ADDC, the last carry dropped.
AddMaskedPrime(hi, mask) ==
    mp_add(hi, [i \in 1 .. NWORDS_FIELD |-> BitAnd(p751[i], mask)], NWORDS_FIELD).c

\* fp2mul751_mont with the sums a0 + a1 and b0 + b1 read after c[0] is
\* written instead of before.
fp2mul751_mont_LateSums(m, pa, pb, pc) ==
    LET tt1 == mp_mul(m[pa][1], m[pb][1], NWORDS_FIELD)
        tt2 == mp_mul(m[pa][2], m[pb][2], NWORDS_FIELD)
        d == mp_sub(tt1, tt2, 2 * NWORDS_FIELD)
        mask == (Base - d.borrow) % Base
        tt3 == SubSeq(d.c, 1, NWORDS_FIELD) \o
               mp_add(SubSeq(d.c, NWORDS_FIELD + 1, 2 * NWORDS_FIELD),
                      [i \in 1 .. NWORDS_FIELD |-> BitAnd(p751[i], mask)], NWORDS_FIELD).c
        m1 == [m EXCEPT ![pc][1] = rdc_mont(tt3)]
        t1 == mp_add(m1[pa][1], m1[pa][2], NWORDS_FIELD).c
        t2 == mp_add(m1[pb][1], m1[pb][2], NWORDS_FIELD).c
        tt1s == mp_add(tt1, tt2, 2 * NWORDS_FIELD).c
        tt2m == mp_mul(t1, t2, NWORDS_FIELD)
        e == mp_sub(tt2m, tt1s, 2 * NWORDS_FIELD)
    IN  [ mem |-> [m1 EXCEPT ![pc][2] = rdc_mont(e.c)],
          c0in |-> tt3, borrow |-> d.borrow, mask |-> mask,
          c1in |-> e.c, borrow1 |-> e.borrow ]

\* fp2mul751_mont(a, b, c).  Besides the memory it leaves, the record holds
\* the two double-width values handed to rdc_mont, the borrow and mask of
\* the first subtraction and the borrow of the second.
fp2mul751_mont(m, pa, pb, pc) ==
    LET tt1 == mp_mul(m[pa][1], m[pb][1], NWORDS_FIELD)
        tt2 == mp_mul(m[pa][2], m[pb][2], NWORDS_FIELD)
        t1 == mp_add(m[pa][1], m[pa][2], NWORDS_FIELD).c
        t2 == mp_add(m[pb][1], m[pb][2], NWORDS_FIELD).c
        d == mp_sub(tt1, tt2, 2 * NWORDS_FIELD)
        mask == (Base - d.borrow) % Base
        tt3 == SubSeq(d.c, 1, NWORDS_FIELD) \o
               AddMaskedPrime(SubSeq(d.c, NWORDS_FIELD + 1, 2 * NWORDS_FIELD), mask)
        m1 == [m EXCEPT ![pc][1] = rdc_mont(tt3)]
        tt1s == mp_add(tt1, tt2, 2 * NWORDS_FIELD).c
        tt2m == mp_mul(t1, t2, NWORDS_FIELD)
        e == mp_sub(tt2m, tt1s, 2 * NWORDS_FIELD)
    IN  [ mem |-> [m1 EXCEPT ![pc][2] = rdc_mont(e.c)],
          c0in |-> tt3, borrow |-> d.borrow, mask |-> mask,
          c1in |-> e.c, borrow1 |-> e.borrow ]

\* fp2inv751_mont without the negation of a1.
fp2inv751_mont_NoNeg(m, pa) ==
    LET t10 == fpsqr751_mont(m[pa][1])
        t11 == fpsqr751_mont(m[pa][2])
        norm == fpadd751(t10, t11)
        ninv == fpinv751_mont(norm)
        m2 == [m EXCEPT ![pa][1] = fpmul751_mont(m[pa][1], ninv)]
    IN  [m2 EXCEPT ![pa][2] = fpmul751_mont(m2[pa][2], ninv)]

\* fp2inv751_mont(a), in place: a = (a0 - i*a1) / (a0^2 + a1^2).
fp2inv751_mont(m, pa) ==
    LET t10 == fpsqr751_mont(m[pa][1])
        t11 == fpsqr751_mont(m[pa][2])
        norm == fpadd751(t10, t11)
        ninv == fpinv751_mont(norm)
        m1 == [m EXCEPT ![pa][2] = fpneg751(m[pa][2])]
        m2 == [m1 EXCEPT ![pa][1] = fpmul751_mont(m1[pa][1], ninv)]
    IN  [m2 EXCEPT ![pa][2] = fpmul751_mont(m2[pa][2], ninv)]

\* --------------------------------------------------- masked select / swap

\* One pass of the swap loop body over a pair of digit arrays:
\* temp = option & (p[i] ^ q[i]); p[i] = temp ^ p[i]; q[i] = temp ^ q[i].
SwapDigits(pd, qd, option) ==
    LET temp == [i \in 1 .. NWORDS_FIELD |-> BitAnd(option, BitXor(pd[i], qd[i]))]
    IN  [ p |-> AsSeq([i \in 1 .. NWORDS_FIELD |-> BitXor(temp[i], pd[i])]),
          q |-> AsSeq([i \in 1 .. NWORDS_FIELD |-> BitXor(temp[i], qd[i])]) ]

\* swap_points_basefield(P, Q, option): X and Z are field elements.
swap_points_basefield(ptP, ptQ, option) ==
    LET sx == SwapDigits(ptP.X, ptQ.X, option)
        sz == SwapDigits(ptP.Z, ptQ.Z, option)
    IN  [ P |-> [X |-> sx.p, Z |-> sz.p], Q |-> [X |-> sx.q, Z |-> sz.q] ]

\* swap_points with Q->Z[1] left as it was.
swap_points_StaleQZ1(ptP, ptQ, option) ==
    LET x0 == SwapDigits(ptP.X[1], ptQ.X[1], option)
        z0 == SwapDigits(ptP.Z[1], ptQ.Z[1], option)
        x1 == SwapDigits(ptP.X[2], ptQ.X[2], option)
        z1 == SwapDigits(ptP.Z[2], ptQ.Z[2], option)
    IN  [ P |-> [X |-> << x0.p, x1.p >>, Z |-> << z0.p, z1.p >>],
          Q |-> [X |-> << x0.q, x1.q >>, Z |-> << z0.q, ptQ.Z[2] >>] ]

\* swap_points(P, Q, option): X and Z are f2elm.
swap_points(ptP, ptQ, option) ==
    LET x0 == SwapDigits(ptP.X[1], ptQ.X[1], option)
        z0 == SwapDigits(ptP.Z[1], ptQ.Z[1], option)
        x1 == SwapDigits(ptP.X[2], ptQ.X[2], option)
        z1 == SwapDigits(ptP.Z[2], ptQ.Z[2], option)
    IN  [ P |-> [X |-> << x0.p, x1.p >>, Z |-> << z0.p, z1.p >>],
          Q |-> [X |-> << x0.q, x1.q >>, Z |-> << z0.q, z1.q >>] ]

\* select_f2elm with | for & in the second component.
select_f2elm_OrMask(fx, fy, option) ==
    << [i \in 1 .. NWORDS_FIELD |-> BitXor(BitAnd(option, BitXor(fx[1][i], fy[1][i])), fx[1][i])],
       [i \in 1 .. NWORDS_FIELD |-> BitXor(BitOr(option, BitXor(fx[2][i], fy[2][i])), fx[2][i])] >>

\* select_f2elm(x, y, z, option): z[k][i] = (option & (x[k][i] ^ y[k][i])) ^ x[k][i].
select_f2elm(fx, fy, option) ==
    << [i \in 1 .. NWORDS_FIELD |-> BitXor(BitAnd(option, BitXor(fx[1][i], fy[1][i])), fx[1][i])],
       [i \in 1 .. NWORDS_FIELD |-> BitXor(BitAnd(option, BitXor(fx[2][i], fy[2][i])), fx[2][i])] >>

\* ================================================================ state

VARIABLES
    \* a call of fpinv751_mont in progress
    inv_in,       \* the argument the running call was entered with
    reg,          \* the registers a, tt, t[0..26]
    ex,           \* the exponent of inv_in each register holds
    pc,           \* the position in Program of the next call
    trace,        \* the calls the running call has made
    run,          \* 1 for the first call, 2 for the second
    prev_in,      \* the argument of the first call, once it returned
    prev_trace,   \* the calls the first call made
    \* GF(p^2) calls on three f2elm_t objects
    mem,          \* the contents of the objects a, b, c
    hist,         \* the functions called so far, in order
    call,         \* the pointer arguments of the last call
    entry,        \* the memory the last call was entered with
    rdc,          \* what the last fp2mul751_mont handed to rdc_mont
    \* select and swap
    kind,         \* which of the three primitives is exercised
    P, Q,         \* the two points (for select: the two inputs x and y)
    P0, Q0,       \* their contents before the first call
    masks,        \* the options of the calls made
    z,            \* select_f2elm's output
    \* the comparators
    cmp_x, cmp_y, \* the operands
    ret           \* the function called and the value it returned

varsInv == << inv_in, reg, ex, pc, trace, run, prev_in, prev_trace >>

varsF2 == << mem, hist, call, entry, rdc >>

varsSel == << kind, P, Q, P0, Q0, masks, z >>

varsCmp == << cmp_x, cmp_y, ret >>

vars == << varsInv, varsF2, varsSel, varsCmp >>

\* The parts of the state a specification leaves unused.
IdleInv ==
    /\ inv_in = << >> /\ reg = << >> /\ ex = << >> /\ pc = 0
    /\ trace = << >> /\ run = 0 /\ prev_in = << >> /\ prev_trace = << >>

IdleF2 ==
    /\ mem = << >> /\ hist = << >> /\ call = << >> /\ entry = << >> /\ rdc = << >>

IdleSel ==
    /\ kind = "none" /\ P = << >> /\ Q = << >> /\ P0 = << >> /\ Q0 = << >>
    /\ masks = << >> /\ z = << >>

IdleCmp ==
    /\ cmp_x = << >> /\ cmp_y = << >> /\ ret = << >>

\* ------------------------------------------------- fpinv751_mont, stepwise

\* fpinv751_mont(a) is entered with a field element.
InitInv ==
    /\ inv_in \in Fp
    /\ reg = EntryRegs(inv_in)
    /\ ex = EntryExps
    /\ pc = 1
    /\ trace = << >>
    /\ run = 1
    /\ prev_in = << >>
    /\ prev_trace = << >>
    /\ IdleF2 /\ IdleSel /\ IdleCmp

\* The next call of the running inversion, whichever it is.
InvStep ==
    \E s \in { fpinv751_step(pc, reg) } :
        /\ reg' = s.reg
        /\ pc' = s.pc
        /\ trace' = trace \o s.calls
        /\ ex' = ExecExp(Program[pc], ex)
        /\ UNCHANGED << inv_in, run, prev_in, prev_trace, varsF2, varsSel, varsCmp >>

InvSqr == pc \in 1 .. Len(Program) /\ Program[pc].op = "fpsqr751_mont" /\ InvStep

InvMul == pc \in 1 .. Len(Program) /\ Program[pc].op = "fpmul751_mont" /\ InvStep

InvCopy == pc \in 1 .. Len(Program) /\ Program[pc].op = "fpcopy751" /\ InvStep

\* After the first call returned, fpinv751_mont is called on another field
\* element (the greater of the two second: comparing two traces does not
\* depend on their order).
InvCallAgain ==
    /\ run = 1
    /\ pc = Done
    /\ \E a \in { b \in Fp : Val(b) > Val(inv_in) } :
          /\ inv_in' = a
          /\ reg' = EntryRegs(a)
    /\ ex' = EntryExps
    /\ pc' = 1
    /\ trace' = << >>
    /\ run' = 2
    /\ prev_in' = inv_in
    /\ prev_trace' = trace
    /\ UNCHANGED << varsF2, varsSel, varsCmp >>

NextInv == InvSqr \/ InvMul \/ InvCopy \/ InvCallAgain

SpecInv == InitInv /\ [][NextInv]_vars

\* ------------------------------------------------------- GF(p^2) calls

Zero2 == << ZeroFelm, ZeroFelm >>

NoRdc == [c0in |-> << >>, borrow |-> 0, mask |-> 0, c1in |-> << >>, borrow1 |-> 0]

\* Object a holds a GF(p^2) element; b and c are zeroed.
InitF2 ==
    /\ mem \in { [s \in Slots |-> IF s = "a" THEN v ELSE Zero2] : v \in F2 }
    /\ hist = << >>
    /\ call = << >>
    /\ entry = mem
    /\ rdc = NoRdc
    /\ IdleInv /\ IdleSel /\ IdleCmp

\* The caller stores a second operand in b.
LoadB ==
    /\ hist = << >>
    /\ \E v \in F2 : mem' = [mem EXCEPT !["b"] = v]
    /\ hist' = << "load" >>
    /\ UNCHANGED << call, entry, rdc, varsInv, varsSel, varsCmp >>

\* fp2mul751_mont(pa, pb, pc) on the given objects.
DoMul(pa, pb, pc_) ==
    \E r \in { fp2mul751_mont(mem, pa, pb, pc_) } :
        /\ mem' = r.mem
        /\ rdc' = [c0in |-> r.c0in, borrow |-> r.borrow, mask |-> r.mask,
                   c1in |-> r.c1in, borrow1 |-> r.borrow1]
        /\ call' = << pa, pb, pc_ >>
        /\ entry' = mem
        /\ hist' = Append(hist, "fp2mul751_mont")
        /\ UNCHANGED << varsInv, varsSel, varsCmp >>

\* fp2mul751_mont(a, b, c) with the output distinct from both inputs or the
\* same object as one of them.
Fp2Mul ==
    /\ hist = << "load" >>
    /\ \E pc_ \in Slots : DoMul("a", "b", pc_)

\* fp2mul751_mont(a, a, c): both inputs the same object, the output distinct
\* or the same object again.
Fp2MulSelf ==
    /\ hist = << >>
    /\ \E pc_ \in {"a", "c"} : DoMul("a", "a", pc_)

\* fp2sqr751_mont(a, c) with the output distinct from the input or the same
\* object.
Fp2Sqr ==
    /\ hist = << >>
    /\ \E pc_ \in {"a", "c"} :
          /\ mem' = fp2sqr751_mont(mem, "a", pc_)
          /\ call' = << "a", "a", pc_ >>
    /\ entry' = mem
    /\ hist' = Append(hist, "fp2sqr751_mont")
    /\ UNCHANGED << rdc, varsInv, varsSel, varsCmp >>

\* fp2copy751(a, c): the copy that is then inverted.
Fp2Copy ==
    /\ hist = << >>
    /\ mem' = fp2copy751(mem, "a", "c")
    /\ call' = << "a", "a", "c" >>
    /\ entry' = mem
    /\ hist' = Append(hist, "fp2copy751")
    /\ UNCHANGED << rdc, varsInv, varsSel, varsCmp >>

\* fp2inv751_mont(c) on the copy.
Fp2Inv ==
    /\ hist = << "fp2copy751" >>
    /\ mem' = fp2inv751_mont(mem, "c")
    /\ call' = << "c", "c", "c" >>
    /\ entry' = mem
    /\ hist' = Append(hist, "fp2inv751_mont")
    /\ UNCHANGED << rdc, varsInv, varsSel, varsCmp >>

\* fp2mul751_mont(c, a, c): the inverse times the original.
Fp2MulInv ==
    /\ hist = << "fp2copy751", "fp2inv751_mont" >>
    /\ DoMul("c", "a", "c")

NextF2 == LoadB \/ Fp2Mul \/ Fp2MulSelf \/ Fp2Sqr \/ Fp2Copy \/ Fp2Inv \/ Fp2MulInv

SpecF2 == InitF2 /\ [][NextF2]_vars

\* ------------------------------------------------------- select and swap

\* How many digit patterns the operands of select and swap are drawn from.
NPatterns == 2

\* Digit pattern k: a ramp over the digit positions, complemented for odd k,
\* so that every pair of bits meets at every position.
Pattern(k) ==
    [i \in 1 .. NWORDS_FIELD |->
        IF k % 2 = 0 THEN (i + k \div 2) % Base
        ELSE AllOnes - ((i + (k \div 2)) % Base)]

Patterns == { Pattern(k) : k \in 0 .. NPatterns - 1 }

PatF2 == { << u, v >> : u \in Patterns, v \in Patterns }

\* The valid options: the all-zero and the all-one mask.
Options == {0, AllOnes}

InitSel ==
    /\ kind \in {"swap_points", "swap_points_basefield", "select_f2elm"}
    /\ P \in IF kind = "swap_points" THEN [X : PatF2, Z : PatF2]
             ELSE IF kind = "swap_points_basefield" THEN [X : Patterns, Z : Patterns]
             ELSE PatF2
    /\ Q \in IF kind = "swap_points" THEN [X : PatF2, Z : PatF2]
             ELSE IF kind = "swap_points_basefield" THEN [X : Patterns, Z : Patterns]
             ELSE PatF2
    /\ P0 = P
    /\ Q0 = Q
    /\ masks = << >>
    /\ z = << >>
    /\ IdleInv /\ IdleF2 /\ IdleCmp

SwapPoints ==
    /\ kind = "swap_points"
    /\ Len(masks) < 2
    /\ \E option \in Options :
          /\ P' = swap_points(P, Q, option).P
          /\ Q' = swap_points(P, Q, option).Q
          /\ masks' = Append(masks, option)
    /\ UNCHANGED << kind, P0, Q0, z, varsInv, varsF2, varsCmp >>

SwapPointsBasefield ==
    /\ kind = "swap_points_basefield"
    /\ Len(masks) < 2
    /\ \E option \in Options :
          /\ P' = swap_points_basefield(P, Q, option).P
          /\ Q' = swap_points_basefield(P, Q, option).Q
          /\ masks' = Append(masks, option)
    /\ UNCHANGED << kind, P0, Q0, z, varsInv, varsF2, varsCmp >>

SelectF2elm ==
    /\ kind = "select_f2elm"
    /\ masks = << >>
    /\ \E option \in Options :
          /\ z' = select_f2elm(P, Q, option)
          /\ masks' = Append(masks, option)
    /\ UNCHANGED << kind, P, Q, P0, Q0, varsInv, varsF2, varsCmp >>

NextSel == SwapPoints \/ SwapPointsBasefield \/ SelectF2elm

SpecSel == InitSel /\ [][NextSel]_vars

\* ------------------------------------------------------- the comparators

InitCmp ==
    /\ cmp_x \in Felm
    /\ cmp_y \in Felm
    /\ ret = << >>
    /\ IdleInv /\ IdleF2 /\ IdleSel

IsFelmZero ==
    /\ ret = << >>
    /\ ret' = << "is_felm_zero", is_felm_zero(cmp_x) >>
    /\ UNCHANGED << cmp_x, cmp_y, varsInv, varsF2, varsSel >>

IsFelmLt ==
    /\ ret = << >>
    /\ ret' = << "is_felm_lt", is_felm_lt(cmp_x, cmp_y) >>
    /\ UNCHANGED << cmp_x, cmp_y, varsInv, varsF2, varsSel >>

NextCmp == IsFelmZero \/ IsFelmLt

SpecCmp == InitCmp /\ [][NextCmp]_vars

\* ================================================================ claims

\* C1: when fpinv751_mont returns, the exponent of the value written to a is
\* exactly p751 - 2, and for a nonzero argument the Montgomery product of the
\* result with the argument is the Montgomery form of 1.
C1_InverseExponent ==
    pc = Done =>
        /\ ex[A + 1] = P751Minus2
        /\ Val(inv_in) # 0 =>
              /\ fpmul751_mont(reg[A + 1], inv_in) = to_mont(ToWords(1, NWORDS_FIELD))
              /\ Val(from_mont(fpmul751_mont(reg[A + 1], inv_in))) = 1

C1_Witness == pc = Done /\ Val(inv_in) > 1 /\ Val(reg[A + 1]) # Val(inv_in)

\* C4: the calls of a second run on a different argument are, at every
\* point, the calls the first run made up to there; the completed traces are
\* equal.
C4_SameCallTrace ==
    run = 2 =>
        /\ Len(trace) <= Len(prev_trace)
        /\ trace = SubSeq(prev_trace, 1, Len(trace))
        /\ pc = Done => trace = prev_trace

C4_Witness ==
    /\ run = 2 /\ pc = Done /\ inv_in # prev_in
    /\ Len(trace) = Len(Program) /\ Val(reg[A + 1]) # 0

\* C2: after select_f2elm(x, y, z, option), z is x, digit for digit in both
\* components, when option is the all-zero mask, and y when it is the
\* all-one mask.
C2_SelectByMask ==
    (kind = "select_f2elm" /\ Len(masks) = 1) =>
        /\ masks[1] = 0 => (z = P /\ \A k \in 1 .. 2 : \A i \in 1 .. NWORDS_FIELD : z[k][i] = P[k][i])
        /\ masks[1] = AllOnes => (z = Q /\ \A k \in 1 .. 2 : \A i \in 1 .. NWORDS_FIELD : z[k][i] = Q[k][i])

C2_Witness ==
    /\ kind = "select_f2elm" /\ masks = << AllOnes >>
    /\ P[1] # Q[1] /\ P[2] # Q[2] /\ z = Q

\* C3: for swap_points and swap_points_basefield, a call with the all-zero
\* mask leaves both points as they were, a call with the all-one mask
\* exchanges their contents in full, and two calls with the all-one mask
\* restore the original pair.
C3_SwapByMask ==
    kind \in {"swap_points", "swap_points_basefield"} =>
        /\ masks = << 0 >> => (P = P0 /\ Q = Q0)
        /\ masks = << AllOnes >> => (P = Q0 /\ Q = P0)
        /\ masks = << AllOnes, AllOnes >> => (P = P0 /\ Q = Q0)

C3_Witness ==
    /\ kind = "swap_points" /\ masks = << AllOnes, AllOnes >>
    /\ P0.X[1] # Q0.X[1] /\ P0.X[2] # Q0.X[2]
    /\ P0.Z[1] # Q0.Z[1] /\ P0.Z[2] # Q0.Z[2]
    /\ P = P0 /\ Q = Q0

\* The last function called on the GF(p^2) objects.
LastCall == IF hist = << >> THEN "none" ELSE hist[Len(hist)]

\* Memory with the two given operands in a and b and a zeroed c: three
\* distinct objects.
OperandMem(av, bv) ==
    [s \in Slots |-> IF s = "a" THEN av ELSE IF s = "b" THEN bv ELSE Zero2]

MontOne == to_mont([ZeroFelm EXCEPT ![1] = 1])

\* C5: for a nonzero a, fp2inv751_mont on a copy of a followed by
\* fp2mul751_mont of the result with a gives the Montgomery form of (1, 0);
\* and what fp2inv751_mont leaves is (a0 * n, (-a1) * n) for the base-field
\* inverse n of the norm a0^2 + a1^2.
C5_Fp2Inverse ==
    LET a0 == mem["a"][1]
        a1 == mem["a"][2]
        norm == fpadd751(fpsqr751_mont(a0), fpsqr751_mont(a1))
    IN  /\ (hist = << "fp2copy751", "fp2inv751_mont" >> /\ mem["a"] # Zero2) =>
              \E n \in Fp :
                  /\ fpmul751_mont(n, norm) = MontOne
                  /\ mem["c"] = << fpmul751_mont(a0, n), fpmul751_mont(fpneg751(a1), n) >>
        /\ (hist = << "fp2copy751", "fp2inv751_mont", "fp2mul751_mont" >> /\ mem["a"] # Zero2) =>
              mem["c"] = << MontOne, ZeroFelm >>

C5_Witness ==
    /\ hist = << "fp2copy751", "fp2inv751_mont", "fp2mul751_mont" >>
    /\ Val(mem["a"][1]) > 1 /\ Val(mem["a"][2]) > 1
    /\ mem["c"] = << MontOne, ZeroFelm >>

\* C6: fp2sqr751_mont(a) writes, digit for digit in both components, what
\* fp2mul751_mont(a, a) writes.
C6_SqrIsMulSelf ==
    LastCall = "fp2sqr751_mont" =>
        mem[call[3]] = fp2mul751_mont(OperandMem(entry["a"], entry["a"]), "a", "b", "c").mem["c"]

C6_Witness ==
    /\ LastCall = "fp2sqr751_mont"
    /\ Val(entry["a"][1]) + Val(entry["a"][2]) > PrimeModel
    /\ Val(entry["a"][1]) < Val(entry["a"][2])
    /\ Val(mem[call[3]][1]) # 0 /\ Val(mem[call[3]][2]) # 0

\* C7: in fp2mul751_mont the value handed to rdc_mont for c0 is below
\* p * R and congruent to a0*b0 - a1*b1 modulo p; the subtraction borrows
\* exactly when a0*b0 < a1*b1, the mask is then all ones and the value is
\* the difference plus R * p, and otherwise the mask is zero and the value
\* is the difference; the value handed to rdc_mont for c1 is a0*b1 + a1*b0
\* and its subtraction does not borrow.
C7_RdcInputs ==
    LastCall = "fp2mul751_mont" =>
        LET a0 == Val(entry[call[1]][1])
            a1 == Val(entry[call[1]][2])
            b0 == Val(entry[call[2]][1])
            b1 == Val(entry[call[2]][2])
            v0 == Val(rdc.c0in)
        IN  /\ v0 < PrimeModel * MontR
            /\ (v0 + a1 * b1) % PrimeModel = (a0 * b0) % PrimeModel
            /\ rdc.borrow = (IF a0 * b0 < a1 * b1 THEN 1 ELSE 0)
            /\ rdc.borrow = 1 => (rdc.mask = AllOnes /\ v0 + a1 * b1 = a0 * b0 + MontR * PrimeModel)
            /\ rdc.borrow = 0 => (rdc.mask = 0 /\ v0 + a1 * b1 = a0 * b0)
            /\ Val(rdc.c1in) = a0 * b1 + a1 * b0
            /\ rdc.borrow1 = 0

C7_Witness ==
    /\ LastCall = "fp2mul751_mont" /\ call = << "a", "b", "c" >>
    /\ rdc.borrow = 1 /\ rdc.mask = AllOnes
    /\ Val(entry["a"][1]) * Val(entry["b"][1]) > 0

\* C8: is_felm_lt(x, y) returns 1 if x < y as unsigned integers and 0
\* otherwise.
C8_IsLtContract ==
    (ret # << >> /\ ret[1] = "is_felm_lt") =>
        ret[2] = (IF Val(cmp_x) < Val(cmp_y) THEN 1 ELSE 0)

\* C9: is_felm_zero(x) returns 1 if every digit of x is 0 and 0 otherwise.
C9_IsZeroContract ==
    (ret # << >> /\ ret[1] = "is_felm_zero") =>
        ret[2] = (IF \A i \in 1 .. NWORDS_FIELD : cmp_x[i] = 0 THEN 1 ELSE 0)

\* C10: fp2mul751_mont and fp2sqr751_mont write the same result when the
\* output is the same object as an input as when all objects are distinct.
C10_AliasSafe ==
    /\ LastCall = "fp2mul751_mont" =>
          mem[call[3]] =
              fp2mul751_mont(OperandMem(entry[call[1]], entry[call[2]]), "a", "b", "c").mem["c"]
    /\ LastCall = "fp2sqr751_mont" =>
          mem[call[3]] = fp2sqr751_mont(OperandMem(entry[call[1]], Zero2), "a", "c")["c"]

C10_Witness ==
    /\ hist = << "load", "fp2mul751_mont" >> /\ call = << "a", "b", "a" >>
    /\ mem["a"][1] # entry["a"][1] /\ mem["a"][2] # entry["a"][2]
    /\ Val(entry["a"][2]) # 0 /\ Val(entry["b"][2]) # 0

====
